---- MODULE Spec2Model ----
(***************************************************************************)
(* A model of PyOFPost: the field-file reader FoamTimeSave, the dataset    *)
(* builder MLDataSet and the box-difference comparison FoamDiff.           *)
(*                                                                         *)
(* Text is modelled below the level the code works at: a file is a         *)
(* sequence of lines, a line a sequence of whitespace-separated tokens, a  *)
(* token a sequence of atoms (a keyword, a digit, a bracket, a semicolon). *)
(* Python dictionaries are functions whose DOMAIN is the set of keys.      *)
(***************************************************************************)
EXTENDS Integers, Sequences, FiniteSets, TLC

VARIABLES
    time_dir,       \* os.listdir(time_path): sequence of [name, isfile, lines]
    fields,         \* FoamTimeSave.fields
    status,         \* "new", "ok" (constructor returned), or the exception raised
    npy,            \* files written by write_fields_npy: name -> saved value
    wErr,           \* outcome of the last write_fields_npy call
    geo_ds,                     \* MLDataSet.geo_ds, Unset before it is assigned
    labelBased_ds_features,     \* MLDataSet.labelBased_ds_features
    labelBased_ds_label,        \* MLDataSet.labelBased_ds_label
    csv,            \* files under save_path: "features" / "label" -> table
    mlCall,         \* the last MLDataSet call: its arguments, locals and outcome
    cases,          \* FoamDiff.cases: name -> FoamTimeSave.fields
    RefCase,        \* FoamDiff.RefCase.fields: xx, yy, um, vm
    box,            \* FoamDiff.box
    diffs,          \* FoamDiff.diffs, Unset before interp assigns it
    mask,           \* FoamDiff.mask
    metrics,        \* FoamDiff.metrics: name -> <<MSE, MAE>>
    dCall,          \* the last FoamDiff call: its locals and outcome
    df,             \* outcome of the last build_df call, Unset before any
    caseNames,      \* FoamLineComparison: the keys of self.cases in their order
    cmpLines,       \* FoamLineComparison.lines, in the order of its keys
    readK,          \* FoamLineComparison.readK
    readRef,        \* FoamLineComparison.readRef
    lineData,       \* FoamLineComparison.lineData, Unset before extractLine
    lCall           \* the last extractLine call: its arguments and outcome

snapVars == <<time_dir, fields, status, npy, wErr, df>>
mlVars == <<geo_ds, labelBased_ds_features, labelBased_ds_label, csv, mlCall>>
diffVars == <<cases, RefCase, box, diffs, mask, metrics, dCall>>
lineVars == <<caseNames, cmpLines, readK, readRef, lineData, lCall>>
vars == <<snapVars, mlVars, diffVars, lineVars>>

\* ------------------------------------------------------------- bounds
\* Largest declared cell count of a generated field file.
MaxCells == 2

\* ------------------------------------------------------------- text
Digits == <<"0", "1", "2", "3", "4", "5", "6", "7", "8", "9">>

\* np.nan, kept apart from every numeric value of the model.
NaN == -1000

Tok(a) == <<a>>
Num(k) == <<Digits[k + 1]>>

\* `word in line`: substring test, at atom granularity. "nonuniform" is the
\* two atoms "non","uniform" so that "uniform" is found inside it.
HasWord(line, word) ==
    \E t \in 1..Len(line) : \E a \in 1..Len(line[t]) : line[t][a] = word

HasNonuniform(line) ==
    \E t \in 1..Len(line) : \E a \in 1..(Len(line[t]) - 1) :
        line[t][a] = "non" /\ line[t][a + 1] = "uniform"

FileHasWord(lines, word) == \E i \in 1..Len(lines) : HasWord(lines[i], word)

\* token.strip(";")
RECURSIVE StripSemi(_)
StripSemi(tok) ==
    IF tok = <<>> THEN tok
    ELSE IF Head(tok) = ";" THEN StripSemi(Tail(tok))
    ELSE IF tok[Len(tok)] = ";" THEN StripSemi(SubSeq(tok, 1, Len(tok) - 1))
    ELSE tok

NotParen(a) == a \notin {"(", ")"}
NotSemi(a) == a # ";"
NonEmpty(t) == t # <<>>

\* re.sub(r'\(|\)', '', line) followed by .split()
NoParens(line) ==
    SelectSeq([t \in 1..Len(line) |-> SelectSeq(line[t], NotParen)], NonEmpty)

\* line.replace(";", "") followed by .split()
NoSemi(line) ==
    SelectSeq([t \in 1..Len(line) |-> SelectSeq(line[t], NotSemi)], NonEmpty)

IsNumber(tok) == Len(tok) = 1 /\ \E k \in 1..Len(Digits) : Digits[k] = tok[1]
NumberOf(tok) == (CHOOSE k \in 1..Len(Digits) : Digits[k] = tok[1]) - 1

\* int(line) of a whole line: one token that is a number
IsIntLine(line) == Len(line) = 1 /\ IsNumber(line[1])

\* genfromtxt's loose conversion: a token that is no float becomes nan
LooseFloat(tok) == IF IsNumber(tok) THEN NumberOf(tok) ELSE NaN

\* Python slice seq[lo:hi] with 0-based bounds, clamped to the sequence
Slice(seq, lo, hi) ==
    LET h == IF hi < Len(seq) THEN hi ELSE Len(seq)
    IN  IF lo >= h THEN <<>> ELSE SubSeq(seq, lo + 1, h)

Put(d, k, v) == [x \in DOMAIN d \cup {k} |-> IF x = k THEN v ELSE d[x]]

\* An attribute that has not been assigned yet.
Unset == [unset |-> TRUE]

Ok(v) == [err |-> "none", val |-> v]
Raise(e, v) == [err |-> e, val |-> v]

\* ------------------------------------------------------------- numpy
\* np.genfromtxt(path, skip_header, max_rows) on the file's lines: rejects
\* max_rows < 1; skips the header and empty lines; the first line read fixes
\* the column count; a line with another column count is recorded as invalid and
\* raises once reading ends; reading ends after max_rows accepted rows.
RowOf(line) ==
    IF Len(line) = 1 THEN LooseFloat(line[1])
    ELSE [c \in 1..Len(line) |-> LooseFloat(line[c])]

RECURSIVE GenRows(_, _, _, _, _, _)
GenRows(rest, i, nbcols, max_rows, rows, invalid) ==
    IF i > Len(rest) \/ Len(rows) = max_rows
    THEN IF invalid THEN Raise("ValueError", <<>>) ELSE Ok(rows)
    ELSE IF Len(rest[i]) # nbcols
         THEN GenRows(rest, i + 1, nbcols, max_rows, rows, TRUE)
         ELSE GenRows(rest, i + 1, nbcols, max_rows,
                      Append(rows, RowOf(rest[i])), invalid)

genfromtxt(lines, skip_header, max_rows) ==
    IF max_rows < 1 THEN Raise("ValueError", <<>>)
    ELSE LET rest == SelectSeq(Slice(lines, skip_header, Len(lines)), NonEmpty)
         IN  IF rest = <<>> THEN Ok(<<>>)
             ELSE GenRows(rest, 1, Len(rest[1]), max_rows, <<>>, FALSE)

\* np.array([list(map(float, line.split())) for line in cleaned_lines]):
\* float() raises on a token that is no number, np.array on ragged rows.
FloatRows(cleaned) ==
    IF \E r \in 1..Len(cleaned) : \E c \in 1..Len(cleaned[r]) : ~IsNumber(cleaned[r][c])
    THEN Raise("ValueError", <<>>)
    ELSE IF \E r, q \in 1..Len(cleaned) : Len(cleaned[r]) # Len(cleaned[q])
    THEN Raise("ValueError", <<>>)
    ELSE Ok([r \in 1..Len(cleaned) |->
                [c \in 1..Len(cleaned[r]) |-> NumberOf(cleaned[r][c])]])

\* ------------------------------------------------------------- FoamTimeSave
Scalar == Tok("volScalarField")
Vector == Tok("volVectorField")
Tensor == Tok("volTensorField")

\* The body of `if "class" in line:`
ClassStep(line, entry) ==
    IF ~HasWord(line, "class") THEN Ok(entry)
    ELSE IF Len(line) < 2 THEN Raise("IndexError", entry)
    ELSE Ok(Put(entry, "type", StripSemi(line[2])))

\* The `if "nonuniform" in line:` branch; i is the 0-based line index.
NonuniformStep(lines, i, entry) ==
    IF i + 1 >= Len(lines) THEN Raise("IndexError", entry)
    ELSE IF ~IsIntLine(lines[i + 2]) THEN Raise("ValueError", entry)
    ELSE LET nCells == NumberOf(lines[i + 2][1])
             e2 == Put(entry, "nCells", nCells)
             lineSkips == i + 3
         IN  IF "type" \notin DOMAIN e2 THEN Raise("KeyError", e2)
             ELSE IF e2["type"] = Scalar
             THEN LET g == genfromtxt(lines, lineSkips, nCells)
                  IN  IF g.err # "none" THEN Raise(g.err, e2)
                      ELSE Ok(Put(e2, "data", g.val))
             ELSE IF e2["type"] = Vector \/ e2["type"] = Tensor
             THEN LET raw == Slice(lines, lineSkips, lineSkips + nCells)
                      cleaned_lines == [r \in 1..Len(raw) |-> NoParens(raw[r])]
                      a == FloatRows(cleaned_lines)
                  IN  IF a.err # "none" THEN Raise(a.err, e2)
                      ELSE Ok(Put(e2, "data", a.val))
             ELSE Ok(e2)

\* The `elif "uniform" in line:` branch.
UniformStep(line, entry) ==
    IF "type" \notin DOMAIN entry THEN Raise("KeyError", entry)
    ELSE IF entry["type"] = Scalar
    THEN LET toks == NoSemi(line)
         IN  IF Len(toks) < 3 THEN Raise("IndexError", entry)
             ELSE IF ~IsNumber(toks[3]) THEN Raise("ValueError", entry)
             ELSE Ok(Put(entry, "uniformValue", NumberOf(toks[3])))
    ELSE IF entry["type"] = Vector \/ entry["type"] = Tensor
    THEN LET toks == Slice(NoSemi(NoParens(line)), 2, Len(line))
         IN  IF \E c \in 1..Len(toks) : ~IsNumber(toks[c])
             THEN Raise("ValueError", entry)
             ELSE Ok(Put(entry, "uniformValue",
                         [c \in 1..Len(toks) |-> NumberOf(toks[c])]))
    ELSE Ok(entry)

\* One iteration of `for i, line in enumerate(lines):`
LineStep(lines, i, entry) ==
    LET line == lines[i + 1]
        c == ClassStep(line, entry)
    IN  IF c.err # "none" THEN c
        ELSE IF ~HasWord(line, "internalField") THEN c
        ELSE IF HasNonuniform(line) THEN NonuniformStep(lines, i, c.val)
        ELSE IF HasWord(line, "uniform") THEN UniformStep(line, c.val)
        ELSE c

RECURSIVE ScanLines(_, _, _)
ScanLines(lines, i, entry) ==
    IF i >= Len(lines) THEN Ok(entry)
    ELSE LET s == LineStep(lines, i, entry)
         IN  IF s.err # "none" THEN s ELSE ScanLines(lines, i + 1, s.val)

\* Mutant of IsFieldFile: the marker test is dropped.
IsFieldFile_AnyFile(item) == item.isfile

\* Whether an item of the directory is read as a field file.
IsFieldFile(item) == item.isfile /\ FileHasWord(item.lines, "FoamFile")

\* `for item in os.listdir(self.time_path):` from the k-th item on
RECURSIVE ReadItems(_, _, _)
ReadItems(dir, k, flds) ==
    IF k > Len(dir) THEN Ok(flds)
    ELSE IF ~IsFieldFile(dir[k]) THEN ReadItems(dir, k + 1, flds)
    ELSE LET r == ScanLines(dir[k].lines, 0, <<>>)
             f2 == Put(flds, dir[k].name, r.val)
         IN  IF r.err # "none" THEN Raise(r.err, f2)
             ELSE ReadItems(dir, k + 1, f2)

read_fields(dir) == ReadItems(dir, 1, <<>>)

\* write_fields_npy's loop from the k-th name on; saved maps each file written
\* so far to the array saved in it.
RECURSIVE WriteNames(_, _, _, _)
WriteNames(flds, names, k, saved) ==
    IF k > Len(names) THEN Ok(saved)
    ELSE IF names[k] \notin DOMAIN flds THEN Raise("KeyError", saved)
    ELSE IF "data" \in DOMAIN flds[names[k]]
    THEN WriteNames(flds, names, k + 1, Put(saved, names[k], flds[names[k]]["data"]))
    ELSE IF "uniformValue" \in DOMAIN flds[names[k]]
    THEN WriteNames(flds, names, k + 1,
                    Put(saved, names[k], flds[names[k]]["uniformValue"]))
    ELSE WriteNames(flds, names, k + 1, saved)

write_fields_npy(flds, names) == WriteNames(flds, names, 1, <<>>)

\* ------------------------------------------------------------- MLDataSet
\* Cell indices are 1-based here (0-based in numpy); order is what matters.
RECURSIVE SortedSeq(_)
SortedSeq(S) ==
    IF S = {} THEN <<>>
    ELSE LET m == CHOOSE x \in S : \A y \in S : x <= y
         IN  <<m>> \o SortedSeq(S \ {m})

RECURSIVE SeqOfSet(_)
SeqOfSet(S) ==
    IF S = {} THEN <<>>
    ELSE LET m == CHOOSE x \in S : TRUE IN <<m>> \o SeqOfSet(S \ {m})

\* array[idx] with an index array
Take(col, idx) == [k \in 1..Len(idx) |-> col[idx[k]]]

\* The assert of geometric_downsample
GeoRequired(flds) == {"Cx", "Cy", "Cz", "wallDistance"} \subseteq DOMAIN flds

\* Mutant of InBox: the upper wall-distance bound is not applied.
InBox_NoWallMax(Cx, Cy, Cz, d, b, i) ==
    /\ Cx[i] >= b.xmin /\ Cx[i] <= b.xmax
    /\ Cy[i] >= b.ymin /\ Cy[i] <= b.ymax
    /\ Cz[i] >= b.zmin /\ Cz[i] <= b.zmax
    /\ d[i] >= b.wallmin

\* The mask of np.argwhere: all eight comparisons joined by &
InBox(Cx, Cy, Cz, d, b, i) ==
    /\ Cx[i] >= b.xmin /\ Cx[i] <= b.xmax
    /\ Cy[i] >= b.ymin /\ Cy[i] <= b.ymax
    /\ Cz[i] >= b.zmin /\ Cz[i] <= b.zmax
    /\ d[i] >= b.wallmin /\ d[i] <= b.wallmax

\* np.argwhere(mask).flatten(): the indices of the mask, increasing
BoxIdx(flds, b) ==
    LET Cx == flds["Cx"]["data"]
        Cy == flds["Cy"]["data"]
        Cz == flds["Cz"]["data"]
        d == flds["wallDistance"]["data"]
    IN  SortedSeq({i \in 1..Len(Cx) : InBox(Cx, Cy, Cz, d, b, i)})

\* `for name in names:` from the k-th name on; acc is self.geo_ds so far
RECURSIVE GeoLoop(_, _, _, _, _)
GeoLoop(flds, names, k, idx, acc) ==
    IF k > Len(names) THEN Ok(acc)
    ELSE LET name == names[k]
             a1 == Put(acc, name, <<>>)
         IN  IF name \notin DOMAIN flds THEN Raise("KeyError", a1)
             ELSE IF "data" \notin DOMAIN flds[name] THEN Raise("KeyError", a1)
             ELSE GeoLoop(flds, names, k + 1, idx,
                          Put(a1, name, [data |-> Take(flds[name]["data"], idx),
                                         nCells |-> Len(idx),
                                         type |-> flds[name]["type"]]))

\* names is [none |-> TRUE] for names=None, else [none |-> FALSE, list |-> ..].
\* The result says whether self.geo_ds was assigned and to what.
geometric_downsample(flds, b, names) ==
    IF ~GeoRequired(flds)
    THEN [err |-> "AssertionError", assigned |-> FALSE, val |-> <<>>]
    ELSE IF \E n \in {"Cx", "Cy", "Cz", "wallDistance"} : "data" \notin DOMAIN flds[n]
    THEN [err |-> "KeyError", assigned |-> FALSE, val |-> <<>>]
    ELSE LET idx == BoxIdx(flds, b)
             list == IF names.none
                     THEN SeqOfSet({n \in DOMAIN flds : "data" \in DOMAIN flds[n]})
                     ELSE names.list
             r == GeoLoop(flds, list, 1, idx, <<>>)
         IN  [err |-> r.err, assigned |-> TRUE, val |-> r.val]

Abs(v) == IF v < 0 THEN 0 - v ELSE v

\* abs(data - trivialValue) < tol, elementwise (False on nan)
IsTrivial(v, trivialValue, tol) == v # NaN /\ Abs(v - trivialValue) < tol

TrivialSet(col, trivialValue, tol) ==
    {i \in 1..Len(col) : IsTrivial(col[i], trivialValue, tol)}

\* np.setdiff1d(np.arange(nCells), trivial_indices): sorted, unique
OrdinarySeq(nCells, trivial) == SortedSeq((1..nCells) \ trivial)

\* Mutant of NKeep: rounds up instead of down.
NKeep_Ceil(n_ordinary, ratio) == (n_ordinary * ratio.num + ratio.den - 1) \div ratio.den

\* int(n_ordinary * ratio), ratio = num/den >= 0
NKeep(n_ordinary, ratio) == (n_ordinary * ratio.num) \div ratio.den

\* Every outcome of np.random.choice(a, n, replace=False): n distinct
\* elements of a in any order.
Arrangements(S, n) ==
    {s \in [1..n -> S] : \A i, j \in 1..n : i # j => s[i] # s[j]}

\* The checks made before sampling: the raised exception, or "none".
LabelPrecheck(data, label, features) ==
    IF label \notin DOMAIN data THEN "AssertionError"
    ELSE IF \E k \in 1..Len(features) : features[k] \notin DOMAIN data
    THEN "AssertionError"
    ELSE IF "type" \notin DOMAIN data[label] THEN "KeyError"
    ELSE IF data[label]["type"] # Scalar THEN "AssertionError"
    ELSE IF "data" \notin DOMAIN data[label] THEN "KeyError"
    ELSE IF "nCells" \notin DOMAIN data[label] THEN "KeyError"
    ELSE "none"

\* `for feature in features:` from the k-th on; acc is labelBased_ds_features
RECURSIVE FeatureLoop(_, _, _, _, _)
FeatureLoop(data, features, k, keep, acc) ==
    IF k > Len(features) THEN Ok(acc)
    ELSE IF "data" \notin DOMAIN data[features[k]] THEN Raise("KeyError", acc)
    ELSE IF \E q \in 1..Len(keep) : keep[q] > Len(data[features[k]]["data"])
    THEN Raise("IndexError", acc)
    ELSE FeatureLoop(data, features, k + 1, keep,
                     Put(acc, features[k], Take(data[features[k]]["data"], keep)))

\* pd.DataFrame(dict of columns) accepts 1-dimensional columns only
FrameOk(data, features) ==
    \A k \in 1..Len(features) : data[features[k]]["type"] \notin {Vector, Tensor}

\* The part of downsample_based_on_label after sampling; pick is the outcome of
\* np.random.choice. ds is the MLDataSet attributes [features, label, csv].
LabelBuild(data, a, pick, ordinary, ds) ==
    LET keep == pick \o ordinary
        f == FeatureLoop(data, a.features, 1, keep, <<>>)
    IN  IF f.err # "none"
        THEN [err |-> f.err, features |-> f.val, label |-> <<>>, csv |-> ds.csv,
              indices_keep |-> keep]
        ELSE IF \E q \in 1..Len(keep) : keep[q] > Len(data[a.label]["data"])
        THEN [err |-> "IndexError", features |-> f.val, label |-> <<>>,
              csv |-> ds.csv, indices_keep |-> keep]
        ELSE LET l == Put(<<>>, a.label, Take(data[a.label]["data"], keep))
             IN  IF ~a.save
                 THEN [err |-> "none", features |-> f.val, label |-> l,
                       csv |-> ds.csv, indices_keep |-> keep]
                 ELSE IF ~FrameOk(data, a.features)
                 THEN [err |-> "ValueError", features |-> f.val, label |-> l,
                       csv |-> ds.csv, indices_keep |-> keep]
                 ELSE [err |-> "none", features |-> f.val, label |-> l,
                       csv |-> Put(Put(ds.csv, "features", f.val), "label", l),
                       indices_keep |-> keep]

Failed(e, ds) ==
    [err |-> e, features |-> ds.features, label |-> ds.label, csv |-> ds.csv,
     indices_keep |-> <<>>]

\* The dataset the call reads: self.geo_ds or self.FoamData.fields
LabelData(flds, geo, from_geo_ds) == IF from_geo_ds THEN geo ELSE flds

\* Mutant of Sampling: the request is clamped to the trivial indices available.
Sampling_Clamped(data, a) ==
    LET trivial == TrivialSet(data[a.label]["data"], a.trivialValue, a.tol)
        ordinary == OrdinarySeq(data[a.label]["nCells"], trivial)
        want == NKeep(Len(ordinary), a.ratio)
    IN  [trivial |-> trivial, ordinary |-> ordinary,
         n_trivial_to_keep |-> IF want > Cardinality(trivial)
                               THEN Cardinality(trivial) ELSE want]

\* The numbers of trivial indices available and requested
Sampling(data, a) ==
    LET trivial == TrivialSet(data[a.label]["data"], a.trivialValue, a.tol)
        ordinary == OrdinarySeq(data[a.label]["nCells"], trivial)
    IN  [trivial |-> trivial, ordinary |-> ordinary,
         n_trivial_to_keep |-> NKeep(Len(ordinary), a.ratio)]

\* downsample_based_on_label(label, features, from_geo_ds, trivialValue, tol,
\* ratio, save) with a = the arguments and pick = the sample drawn.
downsample_based_on_label(flds, geo, ds, a, pick) ==
    IF a.from_geo_ds /\ geo = Unset THEN Failed("AssertionError", ds)
    ELSE LET data == LabelData(flds, geo, a.from_geo_ds)
             pre == LabelPrecheck(data, a.label, a.features)
         IN  IF pre # "none" THEN Failed(pre, ds)
             ELSE LET s == Sampling(data, a)
                  IN  IF s.n_trivial_to_keep > Cardinality(s.trivial)
                      THEN Failed("ValueError", ds)
                      ELSE LabelBuild(data, a, pick, s.ordinary, ds)

\* The samples np.random.choice may return for this call (<<>> when the call
\* fails before sampling).
Picks(flds, geo, a) ==
    IF a.from_geo_ds /\ geo = Unset THEN {<<>>}
    ELSE LET data == LabelData(flds, geo, a.from_geo_ds)
         IN  IF LabelPrecheck(data, a.label, a.features) # "none" THEN {<<>>}
             ELSE LET s == Sampling(data, a)
                  IN  IF s.n_trivial_to_keep > Cardinality(s.trivial) THEN {<<>>}
                      ELSE Arrangements(s.trivial, s.n_trivial_to_keep)

\* ------------------------------------------------------------- input files
HeaderLine(marker) == IF marker THEN <<Tok("FoamFile")>> ELSE <<Tok("memo")>>

ClassLines(cls) ==
    IF cls = "none" THEN <<>> ELSE << <<Tok("class"), <<cls, ";">>>> >>

IsVec(cls) == cls \in {"volVectorField", "volTensorField"}

ScalarRow(v) == <<Num(v)>>
VectorRow(v, w) == << <<"(", Digits[v + 1]>>, <<Digits[w + 1], ")">> >>

DataRow(cls, k) == IF IsVec(cls) THEN VectorRow(k, 0) ELSE ScalarRow(k)

UniformLines(cls) ==
    IF IsVec(cls)
    THEN << <<Tok("internalField"), Tok("uniform"), <<"(", "1">>, Tok("0"),
              <<"0", ")", ";">>>> >>
    ELSE << <<Tok("internalField"), Tok("uniform"), <<"1", ";">>>> >>

\* internalField nonuniform List<..> / n / ( / the data rows / ) / ;
BlockOf(n, rowLines) ==
    << <<Tok("internalField"), <<"non", "uniform">>, Tok("List")>>,
       <<Num(n)>>, <<Tok("(")>> >>
    \o rowLines
    \o << <<Tok(")")>>, <<Tok(";")>> >>

NonuniformLines(cls, n, rows) == BlockOf(n, [k \in 1..rows |-> DataRow(cls, k)])

Classes == {"volScalarField", "volVectorField", "volTensorField", "dictionary", "none"}

Near(n) == {r \in (n - 1)..(n + 1) : r >= 0}

\* The value blocks a generated file may carry.
Blocks(cls) ==
    {<<>>} \cup {UniformLines(cls)}
    \cup IF cls \in {"volScalarField", "volVectorField"}
         THEN {NonuniformLines(cls, n, r) : <<n, r>> \in
                  {q \in (0..MaxCells) \X (0..(MaxCells + 1)) : q[2] \in Near(q[1])}}
         ELSE {NonuniformLines(cls, MaxCells, MaxCells)}

FileContents ==
    UNION {UNION {{<<HeaderLine(m)>> \o ClassLines(cls) \o b : b \in Blocks(cls)}
                  : cls \in Classes} : m \in BOOLEAN}

Items(name) ==
    {[name |-> name, isfile |-> TRUE, lines |-> c] : c \in FileContents}
    \cup {[name |-> name, isfile |-> FALSE, lines |-> <<>>]}

\* Names a caller may ask write_fields_npy for; "T" is never a file.
NameLists ==
    {<<>>} \cup {<<a>> : a \in {"p", "U", "T"}}
    \cup {<<a, b>> : <<a, b>> \in {q \in {"p", "U", "T"} \X {"p", "U", "T"} : q[1] # q[2]}}
    \cup {<<"p", "U", "T">>, <<"T", "U", "p">>, <<"U", "T", "p">>}

\* ------------------------------------------------------------- behaviour
NoWrite == [names |-> <<>>, err |-> "none", wrote |-> <<>>]
NoCall == [op |-> "none", err |-> "none"]

\* No FoamDiff object exists.
NoDiff ==
    /\ cases = <<>>
    /\ RefCase = <<>>
    /\ box = <<>>
    /\ diffs = Unset
    /\ mask = Unset
    /\ metrics = Unset
    /\ dCall = NoCall

\* No FoamLineComparison object exists.
NoLine ==
    /\ caseNames = <<>>
    /\ cmpLines = <<>>
    /\ readK = FALSE
    /\ readRef = FALSE
    /\ lineData = Unset
    /\ lCall = NoCall

\* MLDataSet.__init__ sets no dataset attribute; save_path is empty.
MLFresh ==
    /\ geo_ds = Unset
    /\ labelBased_ds_features = Unset
    /\ labelBased_ds_label = Unset
    /\ csv = <<>>
    /\ mlCall = NoCall

Init ==
    /\ time_dir \in {<<a, b>> : <<a, b>> \in Items("p") \X Items("U")}
    /\ fields = <<>>
    /\ status = "new"
    /\ npy = <<>>
    /\ wErr = NoWrite
    /\ MLFresh
    /\ NoDiff
    /\ NoLine
    /\ df = Unset

\* FoamTimeSave(case_path, time)
Construct ==
    /\ status = "new"
    /\ LET r == read_fields(time_dir)
       IN  /\ fields' = r.val
           /\ status' = IF r.err = "none" THEN "ok" ELSE r.err
    /\ UNCHANGED <<time_dir, npy, wErr, df, mlVars, diffVars, lineVars>>

\* snapshot.write_fields_npy(output_path, names)
WriteCall(names) ==
    /\ LET r == write_fields_npy(fields, names)
       IN  /\ npy' = [x \in DOMAIN npy \cup DOMAIN r.val |->
                         IF x \in DOMAIN r.val THEN r.val[x] ELSE npy[x]]
           /\ wErr' = [names |-> names, err |-> r.err, wrote |-> r.val]
    /\ UNCHANGED <<time_dir, fields, status, df, mlVars, diffVars, lineVars>>

WriteFieldsNpy ==
    /\ status = "ok"
    /\ \E names \in NameLists : WriteCall(names)

Next == Construct \/ WriteFieldsNpy

Spec == Init /\ [][Next]_vars

\* ------------------------------------------------------------- MLDataSet runs
\* Number of cells of the generated meshes.
NCells == 3

\* A cell: its centre and wall distance. The two kinds differ on every axis.
CellKinds == {[x |-> 1, y |-> 1, z |-> 1, d |-> 1], [x |-> 0, y |-> 2, z |-> 0, d |-> 2]}

ScalarFieldFile(name, values) ==
    [name |-> name, isfile |-> TRUE,
     lines |-> <<HeaderLine(TRUE)>> \o ClassLines("volScalarField")
               \o BlockOf(Len(values), [k \in 1..Len(values) |-> ScalarRow(values[k])])]

VectorFieldFile(name, rows) ==
    [name |-> name, isfile |-> TRUE,
     lines |-> <<HeaderLine(TRUE)>> \o ClassLines("volVectorField")
               \o BlockOf(Len(rows), [k \in 1..Len(rows) |-> VectorRow(rows[k][1], rows[k][2])])]

UniformFieldFile(name) ==
    [name |-> name, isfile |-> TRUE,
     lines |-> <<HeaderLine(TRUE)>> \o ClassLines("volScalarField")
               \o UniformLines("volScalarField")]

\* The time directory of a case on the given mesh, with or without wallDistance.
MeshDir(mesh, withWall) ==
    << ScalarFieldFile("Cx", [i \in 1..Len(mesh) |-> mesh[i].x]),
       ScalarFieldFile("Cy", [i \in 1..Len(mesh) |-> mesh[i].y]),
       ScalarFieldFile("Cz", [i \in 1..Len(mesh) |-> mesh[i].z]),
       VectorFieldFile("U", [i \in 1..Len(mesh) |-> <<mesh[i].x, mesh[i].y>>]),
       UniformFieldFile("p") >>
    \o IF withWall
       THEN <<ScalarFieldFile("wallDistance", [i \in 1..Len(mesh) |-> mesh[i].d])>>
       ELSE <<>>

Range(lo, hi) == [min |-> lo, max |-> hi]
Wide == Range(0, 9)

Box(rx, ry, rz, rd) ==
    [xmin |-> rx.min, xmax |-> rx.max, ymin |-> ry.min, ymax |-> ry.max,
     zmin |-> rz.min, zmax |-> rz.max, wallmin |-> rd.min, wallmax |-> rd.max]

\* Boxes that exclude nothing, that narrow one axis from one side or both, and
\* that narrow two axes against each other.
BoxArgs ==
    {Box(Wide, Wide, Wide, Wide),
     Box(Range(1, 9), Wide, Wide, Wide), Box(Range(0, 0), Wide, Wide, Wide),
     Box(Wide, Range(0, 1), Wide, Wide), Box(Wide, Range(2, 9), Wide, Wide),
     Box(Wide, Wide, Range(1, 9), Wide), Box(Wide, Wide, Range(0, 0), Wide),
     Box(Wide, Wide, Wide, Range(0, 1)), Box(Wide, Wide, Wide, Range(2, 9)),
     Box(Range(1, 1), Wide, Wide, Range(2, 2))}

GeoNames ==
    {[none |-> TRUE], [none |-> FALSE, list |-> <<"Cx", "T">>]}

Ratios == {[num |-> 1, den |-> 2], [num |-> 1, den |-> 1], [num |-> 2, den |-> 1]}

Args(l, f, g, r, sv) ==
    [label |-> l, features |-> f, from_geo_ds |-> g, trivialValue |-> 1, tol |-> 1,
     ratio |-> r, save |-> sv]

\* Values are scaled so that tol = 1 separates d = 1 (trivial) from d = 2.
\* Calls that keep the tables in memory, calls that save them, and calls with a
\* vector label or a vector feature to save.
LabelArgs ==
    {Args("wallDistance", f, g, r, FALSE) :
        <<f, g, r>> \in {<<"Cx">>, <<"Cx", "U">>} \X BOOLEAN \X Ratios}
    \cup {Args("wallDistance", <<"Cx">>, g, r, TRUE) :
        <<g, r>> \in BOOLEAN \X (Ratios \ {[num |-> 1, den |-> 2]})}
    \cup {Args("wallDistance", <<"Cx", "U">>, FALSE, [num |-> 1, den |-> 1], TRUE),
          Args("U", <<"Cx">>, FALSE, [num |-> 1, den |-> 1], FALSE)}

\* MLDataSet(case_path, save_path, time) has returned.
InitML ==
    /\ \E mesh \in [1..NCells -> CellKinds], withWall \in BOOLEAN :
          /\ time_dir = MeshDir(mesh, withWall)
          /\ fields = read_fields(time_dir).val
    /\ status = "ok"
    /\ npy = <<>>
    /\ wErr = NoWrite
    /\ MLFresh
    /\ NoDiff
    /\ NoLine
    /\ df = Unset

\* dataset.geometric_downsample(wallmin, ..., zmax, names)
GeoCall(b, names) ==
    /\ LET r == geometric_downsample(fields, b, names)
       IN  /\ geo_ds' = IF r.assigned THEN r.val ELSE geo_ds
           /\ mlCall' = [op |-> "geo", err |-> r.err, box |-> b, names |-> names]
    /\ UNCHANGED <<snapVars, diffVars, lineVars, labelBased_ds_features, labelBased_ds_label, csv>>

GeometricDownsample ==
    /\ labelBased_ds_features = Unset
    /\ \E b \in BoxArgs, names \in GeoNames : GeoCall(b, names)

\* Mutant of SnapshotAfterLabel: the kept rows are written back into `data`.
SnapshotAfterLabel_InPlace(flds, a, keep) ==
    IF a.from_geo_ds \/ keep = <<>> THEN flds
    ELSE [n \in DOMAIN flds |->
            IF n = a.label /\ "data" \in DOMAIN flds[n]
            THEN [flds[n] EXCEPT !["data"] = Take(flds[n]["data"], keep)]
            ELSE flds[n]]

\* Lines 97-101 fill the new dictionaries self.labelBased_ds_features and
\* self.labelBased_ds_label; `data`, which is self.FoamData.fields itself when
\* from_geo_ds is false, is only read. The snapshot after the call:
SnapshotAfterLabel(flds, a, keep) == flds

\* dataset.downsample_based_on_label(label, features, from_geo_ds, ...)
LabelCall(a) ==
    /\ \E pick \in Picks(fields, geo_ds, a) :
         LET ds == [features |-> labelBased_ds_features,
                    label |-> labelBased_ds_label, csv |-> csv]
             r == downsample_based_on_label(fields, geo_ds, ds, a, pick)
         IN  /\ labelBased_ds_features' = r.features
             /\ labelBased_ds_label' = r.label
             /\ csv' = r.csv
             /\ mlCall' = [op |-> "label", err |-> r.err, args |-> a,
                           indices_keep |-> r.indices_keep]
             /\ fields' = SnapshotAfterLabel(fields, a, r.indices_keep)
    /\ UNCHANGED <<time_dir, status, npy, wErr, df, diffVars, lineVars, geo_ds>>

\* A run of the dataset builder ends with the call that assigns the tables.
DownsampleBasedOnLabel ==
    /\ labelBased_ds_features = Unset
    /\ \E a \in LabelArgs : LabelCall(a)

NextML == GeometricDownsample \/ DownsampleBasedOnLabel

SpecML == InitML /\ [][NextML]_vars

\* ------------------------------------------------------------- FoamDiff
\* Float arithmetic on the model's values: nan propagates.
FSub(a, b) == IF a = NaN \/ b = NaN THEN NaN ELSE a - b
FAdd(a, b) == IF a = NaN \/ b = NaN THEN NaN ELSE a + b
FSquare(a) == IF a = NaN THEN NaN ELSE a * a
\* np.sqrt, on the perfect squares the generated inputs produce
FSqrt(a) == IF a = NaN THEN NaN ELSE CHOOSE r \in 0..a : r * r = a

\* A mean is kept as sum and count; count 0 is the nan that 0/0 gives.
NaNMean == [num |-> 0, den |-> 0]

RECURSIVE NanSum(_, _)
NanSum(arr, k) ==
    IF k > Len(arr) THEN [num |-> 0, den |-> 0]
    ELSE LET rest == NanSum(arr, k + 1)
         IN  IF arr[k] = NaN THEN rest
             ELSE [num |-> arr[k] + rest.num, den |-> 1 + rest.den]

\* Mutant of nanmean: a nan entry counts as a zero.
nanmean_ZeroFill(arr) == [num |-> NanSum(arr, 1).num, den |-> Len(arr)]

\* np.nanmean(arr): the mean of the entries that are not nan
nanmean(arr) == NanSum(arr, 1)

\* np.where(mask, arr, np.nan)
Where(msk, arr) == [i \in 1..Len(arr) |-> IF msk[i] THEN arr[i] ELSE NaN]

\* (diff**2).sum(axis=1)
SquaredNorm(diff) ==
    [i \in 1..Len(diff) |-> FAdd(FSquare(diff[i][1]), FSquare(diff[i][2]))]

\* The order of self.cases (the order of the names given to the constructor)
CaseOrder == <<"A", "B">>

\* interp's loop from the k-th case on; sim[name] is what griddata returned for
\* the case, a pair (interp_x, interp_y) per reference point, nan where undefined.
RECURSIVE InterpLoop(_, _, _, _, _)
InterpLoop(cs, ref, sim, k, acc) ==
    IF k > Len(CaseOrder) THEN Ok(acc)
    ELSE LET name == CaseOrder[k]
         IN  IF \E f \in {"Cx", "Cy", "U"} :
                    f \notin DOMAIN cs[name] \/ "data" \notin DOMAIN cs[name][f]
             THEN Raise("KeyError", acc)
             ELSE InterpLoop(cs, ref, sim, k + 1,
                    Put(acc, name,
                        [i \in 1..Len(ref["xx"]) |->
                            <<FSub(sim[name][i][1], ref["um"][i]),
                              FSub(sim[name][i][2], ref["vm"][i])>>]))

interp(cs, ref, sim) == InterpLoop(cs, ref, sim, 1, <<>>)

\* boxMask: the four keys are read from self.box; the mask is inclusive.
boxMask(ref, bx) ==
    IF \E key \in {"xmax", "xmin", "ymax", "ymin"} : key \notin DOMAIN bx
    THEN Raise("KeyError", <<>>)
    ELSE Ok([i \in 1..Len(ref["xx"]) |->
                /\ ref["xx"][i] <= bx["xmax"] /\ ref["xx"][i] >= bx["xmin"]
                /\ ref["yy"][i] <= bx["ymax"] /\ ref["yy"][i] >= bx["ymin"]])

\* Metrics' loop from the k-th key of self.diffs on
CaseMetrics(diff, msk) ==
    << nanmean(Where(msk, SquaredNorm(diff))),
       nanmean(Where(msk, [i \in 1..Len(diff) |-> FSqrt(SquaredNorm(diff)[i])])) >>

\* The result says whether self.metrics was assigned and to what.
Metrics(dfs, msk) ==
    IF dfs = Unset THEN [err |-> "AttributeError", assigned |-> FALSE, val |-> <<>>]
    ELSE IF msk = Unset /\ DOMAIN dfs # {}
    THEN [err |-> "AttributeError", assigned |-> TRUE,
          val |-> [name \in DOMAIN dfs |-> <<>>]]
    ELSE [err |-> "none", assigned |-> TRUE,
          val |-> [name \in DOMAIN dfs |-> CaseMetrics(dfs[name], msk)]]

\* ------------------------------------------------------------- FoamDiff runs
\* Number of reference points.
NRef == 2

\* A reference point: position and mean velocity.
RefKinds == {[xx |-> 0, yy |-> 0, um |-> 0, vm |-> 0],
             [xx |-> 1, yy |-> 2, um |-> 3, vm |-> 0]}

RefOf(pts) ==
    [xx |-> [i \in 1..Len(pts) |-> pts[i].xx], yy |-> [i \in 1..Len(pts) |-> pts[i].yy],
     um |-> [i \in 1..Len(pts) |-> pts[i].um], vm |-> [i \in 1..Len(pts) |-> pts[i].vm]]

XY(x0, x1, y0, y1) == [xmin |-> x0, xmax |-> x1, ymin |-> y0, ymax |-> y1]

\* Boxes around everything, around one kind of point, around nothing; a box
\* with z bounds; boxes that leave bounds out.
Boxes ==
    {XY(0, 9, 0, 9), XY(1, 9, 0, 9), XY(0, 0, 0, 9), XY(0, 9, 0, 1), XY(0, 9, 5, 9),
     [xmin |-> 0, xmax |-> 9, ymin |-> 0, ymax |-> 9, zmin |-> 5, zmax |-> 9],
     [xmin |-> 1, xmax |-> 9], [ymin |-> 0, ymax |-> 1, zmin |-> 0, zmax |-> 9]}

\* What griddata may return at one reference point for each case.
Interpolated(name) ==
    IF name = "A" THEN {<<3, 4>>, <<NaN, NaN>>, <<NaN, 4>>}
    ELSE {<<3, 0>>, <<NaN, NaN>>}

SimCase(withU) ==
    read_fields(SelectSeq(MeshDir([i \in 1..2 |-> CHOOSE c \in CellKinds : c.x = i - 1], TRUE),
                          LAMBDA item : withU \/ item.name # "U")).val

\* FoamDiff(case_paths, times, names, RefPath, RefName, box) has returned.
InitDiff ==
    /\ time_dir = <<>> /\ fields = <<>> /\ status = "new"
    /\ npy = <<>> /\ wErr = NoWrite
    /\ MLFresh
    /\ \E withU \in BOOLEAN : cases = [name \in {"A", "B"} |->
                                          SimCase(name = "A" \/ withU)]
    /\ \E pts \in [1..NRef -> RefKinds] : RefCase = RefOf(pts)
    /\ box \in Boxes
    /\ diffs = Unset /\ mask = Unset /\ metrics = Unset
    /\ dCall = NoCall
    /\ NoLine
    /\ df = Unset

\* A run of the comparison interpolates once and ends with the call that
\* assigns the metrics.
Interp ==
    /\ diffs = Unset /\ metrics = Unset
    /\ \E sa \in [1..NRef -> Interpolated("A")], sb \in [1..NRef -> Interpolated("B")] :
         LET sim == [name \in {"A", "B"} |-> IF name = "A" THEN sa ELSE sb]
             r == interp(cases, RefCase, sim)
         IN  /\ diffs' = r.val
             /\ dCall' = [op |-> "interp", err |-> r.err, sim |-> sim]
    /\ UNCHANGED <<snapVars, mlVars, lineVars, cases, RefCase, box, mask, metrics>>

BoxMask ==
    /\ metrics = Unset
    /\ LET r == boxMask(RefCase, box)
       IN  /\ mask' = IF r.err = "none" THEN r.val ELSE mask
           /\ dCall' = [op |-> "boxMask", err |-> r.err]
    /\ UNCHANGED <<snapVars, mlVars, lineVars, cases, RefCase, box, diffs, metrics>>

MetricsCall ==
    /\ metrics = Unset
    /\ LET r == Metrics(diffs, mask)
       IN  /\ metrics' = IF r.assigned THEN r.val ELSE metrics
           /\ dCall' = [op |-> "Metrics", err |-> r.err]
    /\ UNCHANGED <<snapVars, mlVars, lineVars, cases, RefCase, box, diffs, mask>>

NextDiff == Interp \/ BoxMask \/ MetricsCall

SpecDiff == InitDiff /\ [][NextDiff]_vars

\* ------------------------------------------------------------- claims C1-C4
\* What a reader of the file sees, stated without the parser: the marker, the
\* nonuniform block, its declared count and the rows between its delimiters.
HasMarker(item) ==
    item.isfile /\ \E i \in 1..Len(item.lines) : Tok("FoamFile") \in
                      {item.lines[i][t] : t \in 1..Len(item.lines[i])}

BlockLines(lines) ==
    {i \in 1..Len(lines) : Len(lines[i]) >= 2 /\ lines[i][1] = Tok("internalField")
                           /\ lines[i][2] = <<"non", "uniform">>}

HasBlock(lines) == BlockLines(lines) # {}
BlockAt(lines) == CHOOSE i \in BlockLines(lines) : TRUE
DeclaredCount(lines) == NumberOf(lines[BlockAt(lines) + 1][1])
CloseAt(lines) ==
    CHOOSE j \in (BlockAt(lines) + 3)..Len(lines) :
        /\ lines[j] = <<Tok(")")>>
        /\ \A q \in (BlockAt(lines) + 3)..(j - 1) : lines[q] # <<Tok(")")>>
RowCount(lines) == CloseAt(lines) - BlockAt(lines) - 3

SupportedKind(entry) ==
    "type" \in DOMAIN entry /\ entry["type"] \in {Scalar, Vector, Tensor}

\* C1: a nonuniform block of scalar or vector/tensor kind declaring n cells is
\* accepted only when exactly n data rows follow the opening delimiter, and then
\* len(data) = n; a block with n+1 or n-1 rows makes construction fail.
C1_RowCountEnforced ==
    status = "ok" =>
        \A k \in 1..Len(time_dir) :
            LET item == time_dir[k] IN
            (HasMarker(item) /\ HasBlock(item.lines) /\ SupportedKind(fields[item.name]))
            => /\ RowCount(item.lines) = DeclaredCount(item.lines)
               /\ "data" \in DOMAIN fields[item.name]
               /\ Len(fields[item.name]["data"]) = DeclaredCount(item.lines)

C3_ExactlyOneValue ==
    status = "ok" =>
        \A name \in DOMAIN fields :
            ("data" \in DOMAIN fields[name]) # ("uniformValue" \in DOMAIN fields[name])

\* C4: write_fields_npy writes, in list order, one file per requested field
\* (its data array or its uniform value); at the first name that is no field
\* it fails, having written exactly the names before it.
FirstUnknown(names) ==
    IF \E k \in 1..Len(names) : names[k] \notin DOMAIN fields
    THEN CHOOSE k \in 1..Len(names) :
            /\ names[k] \notin DOMAIN fields
            /\ \A j \in 1..(k - 1) : names[j] \in DOMAIN fields
    ELSE Len(names) + 1

C4_WritePrefix ==
    (status = "ok" /\ wErr.names # <<>>) =>
        LET stop == FirstUnknown(wErr.names) IN
        /\ wErr.err = IF stop <= Len(wErr.names) THEN "KeyError" ELSE "none"
        /\ DOMAIN wErr.wrote = {wErr.names[j] : j \in 1..(stop - 1)}
        /\ \A n \in DOMAIN wErr.wrote :
              wErr.wrote[n] = IF "data" \in DOMAIN fields[n]
                              THEN fields[n]["data"] ELSE fields[n]["uniformValue"]

\* ------------------------------------------------------------- claims C5-C8
\* The cells a box selects, stated from the eight bounds.
Selected(b) ==
    {i \in 1..Len(fields["Cx"]["data"]) :
        /\ b.xmin <= fields["Cx"]["data"][i] /\ fields["Cx"]["data"][i] <= b.xmax
        /\ b.ymin <= fields["Cy"]["data"][i] /\ fields["Cy"]["data"][i] <= b.ymax
        /\ b.zmin <= fields["Cz"]["data"][i] /\ fields["Cz"]["data"][i] <= b.zmax
        /\ b.wallmin <= fields["wallDistance"]["data"][i]
        /\ fields["wallDistance"]["data"][i] <= b.wallmax}

Increasing(idx) == \A j, k \in 1..Len(idx) : j < k => idx[j] < idx[k]

GeoDone == mlCall.op = "geo" /\ mlCall.err = "none"

\* C5: geometric_downsample keeps exactly the cells inside all four inclusive
\* ranges, every field of the subset lists them in increasing original index
\* order, and a box that excludes nothing keeps all N cells in order.
C5_GeoSubset ==
    GeoDone =>
        LET sel == Selected(mlCall.box)
            n == Cardinality(sel)
        IN  /\ \A name \in DOMAIN geo_ds :
                 /\ geo_ds[name]["nCells"] = n
                 /\ \E idx \in [1..n -> sel] :
                       /\ Increasing(idx)
                       /\ geo_ds[name]["data"] =
                             [k \in 1..n |-> fields[name]["data"][idx[k]]]
            /\ (sel = 1..Len(fields["Cx"]["data"]))
                  => \A name \in DOMAIN geo_ds :
                        geo_ds[name]["data"] = fields[name]["data"]

\* C5 witness: a call with names=None has kept some cells and dropped others.
C5_Witness ==
    /\ GeoDone /\ mlCall.names.none
    /\ DOMAIN geo_ds = {"Cx", "Cy", "Cz", "U", "wallDistance"}
    /\ geo_ds["U"]["nCells"] = 2
    /\ Len(fields["U"]["data"]) > 2

LabelDone == mlCall.op = "label" /\ mlCall.err = "none"

\* The dataset the last label call read, and its partition by the label.
CallData == IF mlCall.args.from_geo_ds THEN geo_ds ELSE fields
CallColumn == CallData[mlCall.args.label]["data"]
Distance(i) == IF CallColumn[i] >= mlCall.args.trivialValue
               THEN CallColumn[i] - mlCall.args.trivialValue
               ELSE mlCall.args.trivialValue - CallColumn[i]
TrivialCells == {i \in 1..Len(CallColumn) : Distance(i) < mlCall.args.tol}
OrdinaryCells == {i \in 1..Len(CallColumn) : Distance(i) >= mlCall.args.tol}

\* floor(|ordinary| * ratio), stated without integer division
Requested ==
    CHOOSE k \in 0..(Cardinality(OrdinaryCells) * mlCall.args.ratio.num) :
        /\ k * mlCall.args.ratio.den <= Cardinality(OrdinaryCells) * mlCall.args.ratio.num
        /\ (k + 1) * mlCall.args.ratio.den > Cardinality(OrdinaryCells) * mlCall.args.ratio.num

KeptAt(S) == {q \in 1..Len(mlCall.indices_keep) : mlCall.indices_keep[q] \in S}

\* C6: the kept rows are the sampled trivial indices followed by the ordinary
\* indices, each group in increasing index order.
C6_GroupsInIndexOrder ==
    LabelDone =>
        LET keep == mlCall.indices_keep
            t == Cardinality(KeptAt(TrivialCells))
        IN  /\ \A q \in 1..Len(keep) : (q <= t) = (keep[q] \in TrivialCells)
            /\ \A q \in 1..(Len(keep) - 1) : q # t => keep[q] < keep[q + 1]

\* C7: a successful call keeps every ordinary index exactly once and exactly
\* floor(|ordinary| * ratio) distinct trivial indices (as many as ordinary ones
\* when ratio = 1), and the label table has as many rows as each feature column.
C7_BalancedKeep ==
    LabelDone =>
        LET keep == mlCall.indices_keep
            a == mlCall.args
        IN  /\ \A q \in 1..Len(keep) : keep[q] \in TrivialCells \cup OrdinaryCells
            /\ \A o \in OrdinaryCells : Cardinality(KeptAt({o})) = 1
            /\ \A t \in TrivialCells : Cardinality(KeptAt({t})) <= 1
            /\ Cardinality(KeptAt(TrivialCells)) = Requested
            /\ (a.ratio.num = a.ratio.den)
                  => Cardinality(KeptAt(TrivialCells)) = Cardinality(OrdinaryCells)
            /\ DOMAIN labelBased_ds_label = {a.label}
            /\ Len(labelBased_ds_label[a.label]) = Len(keep)
            /\ DOMAIN labelBased_ds_features = {a.features[k] : k \in 1..Len(a.features)}
            /\ \A f \in DOMAIN labelBased_ds_features :
                  Len(labelBased_ds_features[f]) = Len(labelBased_ds_label[a.label])

\* C7 witness: ratio = 1 on the geometric subset, one ordinary and one trivial
\* cell kept, a scalar and a vector feature.
C7_Witness ==
    /\ LabelDone
    /\ mlCall.args.ratio = [num |-> 1, den |-> 1] /\ mlCall.args.from_geo_ds
    /\ Cardinality(OrdinaryCells) = 1 /\ Cardinality(TrivialCells) = 2
    /\ Len(mlCall.indices_keep) = 2
    /\ DOMAIN labelBased_ds_features = {"Cx", "U"}

\* A label call whose label and features are in the dataset read, with a scalar
\* label column.
CallWellFormed ==
    /\ mlCall.op = "label"
    /\ mlCall.args.from_geo_ds => geo_ds # Unset
    /\ {mlCall.args.label} \cup {mlCall.args.features[k] :
            k \in 1..Len(mlCall.args.features)} \subseteq DOMAIN CallData
    /\ DOMAIN CallData[mlCall.args.label] = {"data", "nCells", "type"}
    /\ CallData[mlCall.args.label]["type"] = Scalar

\* C8: when floor(|ordinary| * ratio) exceeds the number of trivial indices the
\* call fails with the sampling error, keeps no index, and neither table is
\* produced or written.
C8_InsufficientFails ==
    (CallWellFormed /\ Requested > Cardinality(TrivialCells)) =>
        /\ mlCall.err = "ValueError"
        /\ mlCall.indices_keep = <<>>
        /\ labelBased_ds_features = Unset
        /\ labelBased_ds_label = Unset
        /\ csv = <<>>

\* C8 witness: ratio = 2 with two ordinary cells and one trivial cell (4 wanted).
C8_Witness ==
    /\ CallWellFormed
    /\ mlCall.args.ratio = [num |-> 2, den |-> 1] /\ mlCall.args.save
    /\ Cardinality(OrdinaryCells) = 2 /\ Cardinality(TrivialCells) = 1
    /\ mlCall.err = "ValueError"

\* ------------------------------------------------------------- claims C9-C10
\* The reference points that count for a case: inside the mask, with both
\* components of the difference defined.
Counted(name) ==
    {i \in 1..Len(mask) : mask[i] /\ diffs[name][i][1] # NaN /\ diffs[name][i][2] # NaN}

SqNorm(name, i) ==
    diffs[name][i][1] * diffs[name][i][1] + diffs[name][i][2] * diffs[name][i][2]

Norm(name, i) == CHOOSE r \in 0..SqNorm(name, i) : r * r = SqNorm(name, i)

RECURSIVE TotalSq(_, _)
TotalSq(name, S) ==
    IF S = {} THEN 0
    ELSE LET i == CHOOSE x \in S : TRUE IN SqNorm(name, i) + TotalSq(name, S \ {i})

RECURSIVE TotalNorm(_, _)
TotalNorm(name, S) ==
    IF S = {} THEN 0
    ELSE LET i == CHOOSE x \in S : TRUE IN Norm(name, i) + TotalNorm(name, S \ {i})

\* m is the mean total / count (m is nan when count = 0)
IsMean(m, total, count) ==
    IF count = 0 THEN m.den = 0
    ELSE m.den # 0 /\ m.num * count = total * m.den

\* C9: the difference is sim - ref where griddata gave a value and undefined
\* elsewhere; Metrics gives per case the mean squared norm and the mean norm of
\* the difference over the points inside the mask whose difference is defined,
\* nan when there is none, and raises nothing.
C9_MaskedNanSafeMetrics ==
    /\ (dCall.op = "interp" /\ dCall.err = "none") =>
          \A name \in DOMAIN diffs : \A i \in 1..Len(RefCase["xx"]) :
              /\ diffs[name][i][1] = IF dCall.sim[name][i][1] = NaN THEN NaN
                                     ELSE dCall.sim[name][i][1] - RefCase["um"][i]
              /\ diffs[name][i][2] = IF dCall.sim[name][i][2] = NaN THEN NaN
                                     ELSE dCall.sim[name][i][2] - RefCase["vm"][i]
    /\ (dCall.op = "Metrics" /\ diffs # Unset /\ mask # Unset) =>
          /\ dCall.err = "none"
          /\ DOMAIN metrics = DOMAIN diffs
          /\ \A name \in DOMAIN diffs :
                /\ IsMean(metrics[name][1], TotalSq(name, Counted(name)),
                          Cardinality(Counted(name)))
                /\ IsMean(metrics[name][2], TotalNorm(name, Counted(name)),
                          Cardinality(Counted(name)))

\* C9 witness: case A has one counted point (squared norm 25, norm 5) and one
\* point inside the mask with an undefined difference; case B has no counted
\* point and nan metrics.
C9_Witness ==
    /\ dCall.op = "Metrics" /\ dCall.err = "none"
    /\ DOMAIN metrics = {"A", "B"}
    /\ metrics["A"] = <<[num |-> 25, den |-> 1], [num |-> 5, den |-> 1]>>
    /\ \E i \in 1..Len(mask) : mask[i] /\ diffs["A"][i][1] = NaN
    /\ metrics["B"] = <<NaNMean, NaNMean>>

\* C10: boxMask accepts a box that leaves bounds out, an omitted bound meaning
\* unbounded on that side, and the mask holds the points within the bounds given.
Given(key, ok) == key \in DOMAIN box => ok

C10_OmittedBoundUnbounded ==
    dCall.op = "boxMask" =>
        /\ dCall.err = "none"
        /\ mask = [i \in 1..Len(RefCase["xx"]) |->
                      /\ Given("xmin", RefCase["xx"][i] >= box["xmin"])
                      /\ Given("xmax", RefCase["xx"][i] <= box["xmax"])
                      /\ Given("ymin", RefCase["yy"][i] >= box["ymin"])
                      /\ Given("ymax", RefCase["yy"][i] <= box["ymax"])]

\* ------------------------------------------------------------- FoamLineComparison
\* Arrays of extractLine are kept by what the presence of an entry depends on:
\* np.linspace(a, b, n) by its ends and length, griddata(...) by the values it
\* interpolates and the number of target points.
Linspace(a, b, n) == [from |-> a, to |-> b, n |-> n]

\* arr[::step] for step > 0
Strided(arr, step) == [arr EXCEPT !.n = (arr.n + step - 1) \div step]

Griddata(values, n) == [of |-> values, n |-> n]

None == [none |-> TRUE]

Column(rows, c) == [i \in 1..Len(rows) |-> rows[i][c]]

HasData(flds, f) == f \in DOMAIN flds /\ "data" \in DOMAIN flds[f]

\* Lines 208-217: whether the griddata call on the k field raises (no k field,
\* no "data" in it, or as many values as the case has no cell centres).
KRaises(flds) ==
    \/ ~HasData(flds, "k")
    \/ Len(flds["k"]["data"]) # Len(flds["Cx"]["data"])

\* Lines 197-217 for one case: the entry, whether k was read, and the KeyError
\* of a missing Cx, Cy or U, which leaves the entry with xx and yy.
CaseEntry(flds, xx, yy, rK) ==
    IF ~HasData(flds, "Cx") \/ ~HasData(flds, "Cy") \/ ~HasData(flds, "U")
    THEN [err |-> "KeyError", val |-> [xx |-> xx, yy |-> yy], k_success |-> TRUE]
    ELSE LET uv == [xx |-> xx, yy |-> yy,
                    u |-> Griddata(Column(flds["U"]["data"], 1), xx.n),
                    v |-> Griddata(Column(flds["U"]["data"], 2), xx.n)]
         IN  IF ~rK THEN [err |-> "none", val |-> uv, k_success |-> TRUE]
             ELSE IF KRaises(flds)
             THEN [err |-> "none", val |-> Put(uv, "k", None), k_success |-> FALSE]
             ELSE [err |-> "none",
                   val |-> Put(uv, "k", Griddata(flds["k"]["data"], xx.n)),
                   k_success |-> TRUE]

\* Lines 196-217: the loop over self.cases from the j-th case on.
RECURSIVE CasesLoop(_, _, _, _, _, _, _, _)
CasesLoop(cs, order, j, xx, yy, rK, acc, k_success) ==
    IF j > Len(order) THEN [err |-> "none", val |-> acc, k_success |-> k_success]
    ELSE LET e == CaseEntry(cs[order[j]], xx, yy, rK)
         IN  IF e.err # "none"
             THEN [err |-> e.err, val |-> Put(acc, order[j], e.val),
                   k_success |-> k_success]
             ELSE CasesLoop(cs, order, j + 1, xx, yy, rK, Put(acc, order[j], e.val),
                            k_success /\ e.k_success)

\* Lines 219-235: the entry of the reference for one line.
RefEntry(ref, xx, yy, rK, k_success, refSkip) ==
    IF refSkip = 0 THEN Raise("ValueError", <<>>)
    ELSE LET n == Strided(xx, refSkip).n
             uv == [xx |-> Strided(xx, refSkip), yy |-> Strided(yy, refSkip),
                    u |-> Griddata(ref["um"], n), v |-> Griddata(ref["vm"], n)]
         IN  IF ~(rK /\ k_success) THEN Ok(uv)
             ELSE IF "k" \notin DOMAIN ref THEN Raise("KeyError", uv)
             ELSE Ok(Put(uv, "k", Griddata(ref["k"], n)))

\* Lines 187-235: the loop over self.lines from the j-th line on.
RECURSIVE LinesLoop(_, _, _, _, _, _, _, _, _, _)
LinesLoop(cs, order, ref, lns, rK, rRef, npCase, refSkip, j, acc) ==
    IF j > Len(lns) THEN Ok(acc)
    ELSE LET key == lns[j].key
             xx == Linspace(lns[j].start[1], lns[j].end[1], npCase)
             yy == Linspace(lns[j].start[2], lns[j].end[2], npCase)
             c == CasesLoop(cs, order, 1, xx, yy, rK, <<>>, TRUE)
         IN  IF c.err # "none" THEN Raise(c.err, Put(acc, key, c.val))
             ELSE IF ~rRef
             THEN LinesLoop(cs, order, ref, lns, rK, rRef, npCase, refSkip, j + 1,
                            Put(acc, key, c.val))
             ELSE LET r == RefEntry(ref, xx, yy, rK, c.k_success, refSkip)
                      done == Put(acc, key, Put(c.val, "Ref", r.val))
                  IN  IF r.err # "none" THEN Raise(r.err, done)
                      ELSE LinesLoop(cs, order, ref, lns, rK, rRef, npCase, refSkip,
                                     j + 1, done)

extractLine(cs, order, ref, lns, rK, rRef, npCase, refSkip) ==
    LinesLoop(cs, order, ref, lns, rK, rRef, npCase, refSkip, 1, <<>>)

\* ------------------------------------------------------------- FoamLineComparison runs
\* Largest npCase of the generated extractLine calls.
NPoints == 3

\* The time directory of a two-cell case: with U or without, and with the k
\* field written per cell, written as a uniform value, written for one cell
\* only, or not written.
LineDir(withU, kKind) ==
    SelectSeq(MeshDir([i \in 1..2 |-> CHOOSE c \in CellKinds : c.x = i - 1], TRUE),
              LAMBDA item : withU \/ item.name # "U")
    \o CASE kKind = "data" -> <<ScalarFieldFile("k", <<1, 2>>)>>
         [] kKind = "uniform" -> <<UniformFieldFile("k")>>
         [] kKind = "short" -> <<ScalarFieldFile("k", <<1>>)>>
         [] OTHER -> <<>>

LineCases ==
    {read_fields(LineDir(TRUE, kKind)).val : kKind \in {"data", "uniform", "short", "none"}}
    \cup {read_fields(LineDir(FALSE, "data")).val}

\* RefField(RefPath, RefName, readK=readK).fields
LineRef(rK) ==
    LET uv == RefOf([i \in 1..2 |-> CHOOSE r \in RefKinds : r.xx = i - 1])
    IN  IF rK THEN Put(uv, "k", <<1, 1>>) ELSE uv

LineDefs ==
    LET a == [key |-> "x0p5", start |-> <<0, 0>>, end |-> <<0, 1>>]
        b == [key |-> "x1p0", start |-> <<1, 0>>, end |-> <<1, 1>>]
    IN  {<<a>>, <<a, b>>}

\* FoamLineComparison(case_paths, times, names, RefPath, RefName, lines, readK,
\* readRef) has returned.
InitLine ==
    /\ time_dir = <<>> /\ fields = <<>> /\ status = "new"
    /\ npy = <<>> /\ wErr = NoWrite /\ df = Unset
    /\ MLFresh
    /\ box = <<>> /\ diffs = Unset /\ mask = Unset /\ metrics = Unset /\ dCall = NoCall
    /\ caseNames \in {<<"A">>, <<"A", "B">>, <<"B", "A">>}
    /\ cases \in [{caseNames[j] : j \in 1..Len(caseNames)} -> LineCases]
    /\ readK \in BOOLEAN
    /\ readRef \in BOOLEAN
    /\ RefCase = IF readRef THEN LineRef(readK) ELSE <<>>
    /\ cmpLines \in LineDefs
    /\ lineData = Unset
    /\ lCall = NoCall

\* comparison.extractLine(npCase, refSkip)
ExtractLine ==
    /\ \E npCase \in 1..NPoints, refSkip \in 0..2 :
         LET r == extractLine(cases, caseNames, RefCase, cmpLines, readK, readRef,
                              npCase, refSkip)
         IN  /\ lineData' = r.val
             /\ lCall' = [op |-> "extractLine", err |-> r.err, npCase |-> npCase,
                          refSkip |-> refSkip]
    /\ UNCHANGED <<snapVars, mlVars, diffVars, caseNames, cmpLines, readK, readRef>>

NextLine == ExtractLine

SpecLine == InitLine /\ [][NextLine]_vars

\* ------------------------------------------------------------- claim C11
\* An extractLine call with k requested, on cases that all hold Cx, Cy and U,
\* one of which at least lacks the k field.
LacksK(name) == "k" \notin DOMAIN cases[name]

KRequestedAndMissing ==
    /\ lCall.op = "extractLine" /\ lCall.refSkip > 0
    /\ readK
    /\ \A name \in DOMAIN cases : \A f \in {"Cx", "Cy", "U"} : HasData(cases[name], f)
    /\ \E name \in DOMAIN cases : LacksK(name)

Produced(entry, f) == f \in DOMAIN entry /\ entry[f] # None

\* The entries of the cases for one line: u and v for every case, k unavailable
\* for the cases that lack it and produced for the cases that hold it per cell.
CaseEntriesIsolated(key) ==
    \A name \in DOMAIN cases :
        /\ name \in DOMAIN lineData[key]
        /\ Produced(lineData[key][name], "u") /\ Produced(lineData[key][name], "v")
        /\ "k" \in DOMAIN lineData[key][name]
        /\ LacksK(name) => lineData[key][name]["k"] = None
        /\ ~KRaises(cases[name]) => Produced(lineData[key][name], "k")

\* C11: with k requested, a case that lacks k gets k marked unavailable for each
\* line and nothing else is lost: u and v of that case, every entry of the other
\* cases and every entry (k included) of the reference are produced for every
\* line, whatever the order of the cases.
C11_MissingKIsolated ==
    KRequestedAndMissing =>
        /\ lCall.err = "none"
        /\ DOMAIN lineData = {cmpLines[j].key : j \in 1..Len(cmpLines)}
        /\ \A key \in DOMAIN lineData :
              /\ CaseEntriesIsolated(key)
              /\ readRef =>
                    /\ "Ref" \in DOMAIN lineData[key]
                    /\ \A f \in {"u", "v", "k"} : Produced(lineData[key]["Ref"], f)

\* ------------------------------------------------------------- build_df
\* FoamTimeSave.build_df: the dictionary comprehension reads "type" of every
\* entry and "data" of every scalar entry; pd.DataFrame wants columns of one
\* length.
build_df(flds) ==
    IF \E n \in DOMAIN flds :
          \/ "type" \notin DOMAIN flds[n]
          \/ flds[n]["type"] = Scalar /\ "data" \notin DOMAIN flds[n]
    THEN Raise("KeyError", <<>>)
    ELSE LET cols == [n \in {x \in DOMAIN flds : flds[x]["type"] = Scalar} |->
                         flds[n]["data"]]
         IN  IF \E n, q \in DOMAIN cols : Len(cols[n]) # Len(cols[q])
             THEN Raise("ValueError", <<>>)
             ELSE Ok(cols)

\* snapshot.build_df()
BuildDf ==
    /\ status = "ok"
    /\ df' = build_df(fields)
    /\ UNCHANGED <<time_dir, fields, status, npy, wErr, mlVars, diffVars, lineVars>>

\* ------------------------------------------------------------- sessions
\* Every operation, in any order, on the objects that own a snapshot: a dataset
\* builder (whose snapshot is also written and tabulated), a box comparison, a
\* line comparison.
OpsMesh == [i \in 1..NCells |-> CHOOSE c \in CellKinds : c.d = IF i < NCells THEN 1 ELSE 2]

\* Time directories: complete, without the uniform field p, without
\* wallDistance, and with Cz written as a uniform value (a planar mesh).
OpsDirs ==
    {MeshDir(OpsMesh, TRUE),
     SelectSeq(MeshDir(OpsMesh, TRUE), LAMBDA item : item.name # "p"),
     MeshDir(OpsMesh, FALSE),
     [j \in 1..Len(MeshDir(OpsMesh, TRUE)) |->
         IF MeshDir(OpsMesh, TRUE)[j].name = "Cz" THEN UniformFieldFile("Cz")
         ELSE MeshDir(OpsMesh, TRUE)[j]]}

\* Boxes around every cell, around the last cell, around the other cells.
OpsBoxes ==
    {Box(Wide, Wide, Wide, Wide), Box(Wide, Range(2, 9), Wide, Wide),
     Box(Range(1, 9), Wide, Wide, Wide)}

OpsLabelArgs ==
    {Args("wallDistance", <<"Cx">>, g, r, sv) :
        <<g, r, sv>> \in BOOLEAN \X {[num |-> 1, den |-> 2], [num |-> 1, den |-> 1]}
                         \X BOOLEAN}

OpsNameLists == {<<"Cx">>, <<"Cx", "T">>}

InitOpsML ==
    /\ time_dir \in OpsDirs
    /\ fields = read_fields(time_dir).val
    /\ status = "ok"
    /\ npy = <<>>
    /\ wErr = NoWrite
    /\ MLFresh
    /\ NoDiff
    /\ NoLine
    /\ df = Unset

InitOps == InitOpsML \/ InitDiff \/ InitLine

OpsWrite == status = "ok" /\ \E names \in OpsNameLists : WriteCall(names)

OpsGeo == status = "ok" /\ \E b \in OpsBoxes, names \in GeoNames : GeoCall(b, names)

OpsLabel == status = "ok" /\ \E a \in OpsLabelArgs : LabelCall(a)

OpsDiff == box # <<>> /\ NextDiff

OpsLine == cmpLines # <<>> /\ NextLine

NextOps == OpsWrite \/ BuildDf \/ OpsGeo \/ OpsLabel \/ OpsDiff \/ OpsLine

SpecOps == InitOps /\ [][NextOps]_vars

\* ------------------------------------------------------------- claim C12
\* C12: a snapshot is immutable after construction: no write_fields_npy,
\* build_df, geometric_downsample, downsample_based_on_label, extractLine,
\* interp, boxMask or Metrics call, successful or failed, changes the fields of
\* the snapshot it works on (the dataset builder's, or a comparison's cases).
C12_SnapshotImmutable ==
    [][(status = "ok" => fields' = fields /\ fields' = read_fields(time_dir').val)
       /\ cases' = cases]_vars

\* C12 witness: on one snapshot a write has failed on an unknown name after
\* saving Cx, build_df has run, a geometric subset exists, and a label call on
\* the full snapshot has kept only part of the cells and saved its tables.
C12_Witness ==
    /\ status = "ok"
    /\ wErr.err = "KeyError" /\ "Cx" \in DOMAIN npy
    /\ df # Unset
    /\ geo_ds # Unset
    /\ mlCall.op = "label" /\ mlCall.err = "none"
    /\ ~mlCall.args.from_geo_ds /\ mlCall.args.save
    /\ Len(mlCall.indices_keep) < Len(fields["wallDistance"]["data"])
    /\ "label" \in DOMAIN csv

\* ------------------------------------------------------------- claim C13
\* The last dataset call was downsample_based_on_label(from_geo_ds=True).
LabelFromGeo == mlCall.op = "label" /\ mlCall.args.from_geo_ds

\* The last dataset call was a geometric_downsample that passed its assert.
GeoPassed == mlCall.op = "geo" /\ mlCall.err # "AssertionError"

Named == {mlCall.args.label} \cup
         {mlCall.args.features[k] : k \in 1..Len(mlCall.args.features)}

RowsOf(col, keep) == [q \in 1..Len(keep) |-> col[keep[q]]]

\* The last call took its label and features from geo_ds: names are looked up
\* in the subset, indices are positions in the subset, every ordinary cell of
\* the subset is kept, and the tables hold the subset's rows.
DrawsFromSubset ==
    /\ geo_ds # Unset
    /\ IF \E f \in Named : f \notin DOMAIN geo_ds
       THEN mlCall.err = "AssertionError" /\ mlCall.indices_keep = <<>>
       ELSE (\A f \in Named : "data" \in DOMAIN geo_ds[f]) =>
              LET keep == mlCall.indices_keep
                  sub == geo_ds[mlCall.args.label]
              IN  /\ mlCall.err \in {"none", "ValueError"}
                  /\ \A q \in 1..Len(keep) : keep[q] \in 1..sub["nCells"]
                  /\ mlCall.err = "none" =>
                        /\ \A i \in 1..sub["nCells"] :
                              ~IsTrivial(sub["data"][i], mlCall.args.trivialValue,
                                         mlCall.args.tol)
                                 => \E q \in 1..Len(keep) : keep[q] = i
                        /\ labelBased_ds_label[mlCall.args.label] =
                              RowsOf(sub["data"], keep)
                        /\ \A f \in DOMAIN labelBased_ds_features :
                              labelBased_ds_features[f] = RowsOf(geo_ds[f]["data"], keep)

\* C13: a from_geo_ds=True call made before any geometric_downsample call has
\* passed its required-fields precondition fails on its precondition, producing
\* no table and writing no file; once a geometric_downsample call has passed
\* the precondition, a later from_geo_ds=True call draws from the most recent
\* geometric subset.
C13_SubsetAfterGeo ==
    [][LabelFromGeo' =>
          IF geo_ds # Unset \/ GeoPassed
          THEN DrawsFromSubset'
          ELSE /\ mlCall'.err = "AssertionError"
               /\ labelBased_ds_features' = labelBased_ds_features
               /\ labelBased_ds_label' = labelBased_ds_label
               /\ csv' = csv]_vars

====
